---- MODULE Spec2Model ----
(***************************************************************************)
(* Matrix product kernels of src/rust/src/lib.rs: rust_mm_optimized (the   *)
(* row-parallel direct kernel), rust_mm_blocked (the tiled kernel) and     *)
(* rust_mm_auto (the size dispatcher), called through the C ABI on         *)
(* column-major buffers.                                                   *)
(*                                                                         *)
(* Doubles are modelled by integers (exact arithmetic).  A usize is kept   *)
(* exactly, as a record [wrap, mag]: the value mag when wrap is FALSE and  *)
(* 2^64 - mag when wrap is TRUE, so a sign-extended negative c_int is the  *)
(* large unsigned number it is on a 64-bit target.                         *)
(***************************************************************************)
EXTENDS Integers, Sequences, FiniteSets, TLC

\* ---------------------------------------------------------------- constants
\* const BLOCK_SIZE: usize = 64;
BLOCK_SIZE == 64
\* the literal of  if m <= 512 && k <= 512 && n <= 512
THRESHOLD == 512

\* ------------------------------------------------------------------- bounds
\* small dimensions run over -1..MaxSmall
MaxSmall == 2
\* the input patterns of A and of B are seeded from 0..MaxSeed
MaxSeed == 1
\* rayon worker threads of the direct kernel
NumWorkers == 2
\* dimensions of two concurrent calls run up to MaxPair
MaxPair == 1

Calls == {1, 2}
Workers == 1..NumWorkers
Entries == {"direct", "blocked", "auto"}

VARIABLES
    sched,     \* how the caller runs its calls: "single", "seq" or "par"
    entry,     \* entry[id]: the entry point the caller calls
    m, k, n,   \* m[id], k[id], n[id]: the c_int dimensions the caller passes
    a, b,      \* a[id], b[id]: the caller's input buffers (offset -> value)
    cbuf,      \* cbuf[id]: the caller's output buffer behind c_ptr
    wcount,    \* wcount[id][off]: stores made to cbuf[id][off]
    pc,        \* pc[id]: where the call stands
    kernel,    \* kernel[id]: the kernel running ("" before any)
    arg,       \* arg[id]: the kernel's own parameters m, k, n
    invoked,   \* invoked[id]: the kernels invoked so far, in order
    panicAt,   \* panicAt[id]: source line of the panic (0: none)
    cint,      \* cint[x]: the Array2 `c` a kernel allocates
    iwr,       \* iwr[x][p]: the threads that stored into cell p of `c`, in
               \* order, while the product is computed
    owner,     \* owner[id][i]: the worker that took row i (0: not taken)
    rowpos,    \* rowpos[id][i]: the next j of row i's task
    tpos,      \* tpos[id]: <<i_block, j_block, k_block, i, j>> or <<>>
    cpos,      \* cpos[id]: iterations of the copy-back loop done
    visits,    \* visits[id][t]: times the product term t = (i, j, l) was read
    nread      \* nread[id]: element reads of A (as many of B)

vars == <<sched, entry, m, k, n, a, b, cbuf, wcount, pc, kernel, arg, invoked,
          panicAt, cint, iwr, owner, rowpos, tpos, cpos, visits, nread>>

\* ------------------------------------------------------------ usize numbers
Abs(x) == IF x < 0 THEN -x ELSE x

AsUsizeClamped(x) == [wrap |-> FALSE, mag |-> IF x < 0 THEN 0 ELSE x]

\* `m as usize` on a c_int: sign extension, -1 becomes 2^64 - 1
AsUsize(x) == [wrap |-> x < 0, mag |-> Abs(x)]

\* u * v modulo 2^64
UMulWrap(u, v) ==
    LET p == u.mag * v.mag
    IN  [wrap |-> (u.wrap # v.wrap) /\ p # 0, mag |-> p]

\* whether the exact product u * v needs more than 64 bits (c_int magnitudes)
UMulOverflows(u, v) ==
    IF u.mag = 0 \/ v.mag = 0 THEN FALSE
    ELSE IF u.wrap /\ v.wrap THEN TRUE
    ELSE IF u.wrap THEN v.mag >= 2
    ELSE IF v.wrap THEN u.mag >= 2
    ELSE FALSE

\* u > isize::MAX
ExceedsIsizeMax(u) == u.wrap

UOne == [wrap |-> FALSE, mag |-> 1]

\* ArrayView2::from_shape((d1, d2), slice) is Err(Overflow): the product of the
\* non-zero axis lengths overflows usize or exceeds isize::MAX
ShapeErr(d1, d2) ==
    LET x == IF d1.mag = 0 THEN UOne ELSE d1
        y == IF d2.mag = 0 THEN UOne ELSE d2
    IN  UMulOverflows(x, y) \/ ExceedsIsizeMax(UMulWrap(x, y))

\* the length product u * v of a slice cannot be used: it overflows (a panic
\* with overflow checks) or, wrapped, exceeds what slice::from_raw_parts
\* allows (undefined behaviour; a build with its precondition checks aborts)
LenFault(u, v) == UMulOverflows(u, v) \/ ExceedsIsizeMax(UMulWrap(u, v))

\* the lines of the prologue of rust_mm_optimized at which it can panic: the
\* first faulty slice length (a build that checks it) and the first failing
\* .unwrap() of a shape (any build)
PanicSites(mm, kk, nn) ==
    LET mu == AsUsize(mm)
        ku == AsUsize(kk)
        nu == AsUsize(nn)
        len == IF LenFault(mu, ku) THEN {23}
               ELSE IF LenFault(ku, nu) THEN {24}
               ELSE IF LenFault(mu, nu) THEN {25}
               ELSE {}
        shp == IF ShapeErr(ku, mu) THEN {29}
               ELSE IF ShapeErr(nu, ku) THEN {30}
               ELSE {}
    IN  len \cup shp

\* the prologue of rust_mm_blocked is the same text, 51 lines further down
PrologueLine(kern, line) == IF kern = "blocked" THEN line + 51 ELSE line

\* ------------------------------------------------------------------ layout
\* a = from_shape((k, m), a_slice).t():  a[[i, l]] is a_slice[l * m + i]
AIndexRowMajor(i, l, mm, kk) == l + i * kk

AIndex(i, l, mm, kk) == i + l * mm

\* b = from_shape((n, k), b_slice).t():  b[[l, j]] is b_slice[j * k + l]
BIndex(l, j, kk, nn) == l + j * kk

\* c = Array2::zeros((m, n)), standard layout: c[[i, j]] is data[i * n + j]
CIndex(i, j, ncols) == i * ncols + j

\* c_slice[i + j * m]
COffset(i, j, mm, nn) == i + j * mm

Ones(rows, cols) ==
    [nrows |-> rows, ncols |-> cols, data |-> [p \in 0..(rows * cols - 1) |-> 1]]

\* Array2::zeros((m, n))
Zeros(rows, cols) ==
    [nrows |-> rows, ncols |-> cols, data |-> [p \in 0..(rows * cols - 1) |-> 0]]

\* after the kernel returned, `c` is dropped
NoArray == [nrows |-> 0, ncols |-> 0, data |-> [p \in {} |-> 0]]

OwnShared(id) == 1

\* `let mut c` is a local of the call: every call has its own
Own(id) == id

\* ---------------------------------------------------------------- the sums
RangeLastInclusive(hi) == hi

\* the last index of the half-open range lo..hi of a `for`
RangeLast(hi) == hi - 1

\* every read of the sum over l in lo..last for cell (i, j) is inside a and b
InBounds(i, j, lo, last, mm, kk, nn) ==
    /\ i >= 0 /\ i < mm
    /\ j >= 0 /\ j < nn
    /\ lo <= last => (lo >= 0 /\ last < kk)

RECURSIVE SumTerms(_, _, _, _, _, _, _, _, _)
\* let mut sum = 0.0; for l in lo..=last { sum += a[[i, l]] * b[[l, j]]; }
\* (the terms are integers and their sum does not depend on the grouping: it
\* is evaluated by halves, which keeps the evaluation shallow)
SumTerms(A, B, i, j, lo, last, mm, kk, nn) ==
    IF last < lo THEN 0
    ELSE IF last = lo
    THEN A[AIndex(i, lo, mm, kk)] * B[BIndex(lo, j, kk, nn)]
    ELSE LET mid == (lo + last) \div 2
         IN  SumTerms(A, B, i, j, lo, mid, mm, kk, nn)
             + SumTerms(A, B, i, j, mid + 1, last, mm, kk, nn)

\* thread w stored into cell p
Log(f, p, w) == IF p \in DOMAIN f THEN [f EXCEPT ![p] = Append(@, w)] ELSE f

\* the product terms (i, j, l), l in lo..last, each read once more
Bump(v, i, j, lo, last, kk, nn) ==
    [t \in DOMAIN v |->
        IF (t \div kk) = i * nn + j /\ (t % kk) >= lo /\ (t % kk) <= last
        THEN v[t] + 1 ELSE v[t]]

Overwrite(old, sum) == sum

\* c[[i, j]] += sum
Accumulate(old, sum) == old + sum

RowViewFirst(i) == 0

\* the row view that axis_iter_mut(Axis(0)).enumerate() pairs with index i
RowView(i) == i

CopyStoreAdd(old, v) == old + v

\* c_slice[..] = c[[i, j]]
CopyStore(old, v) == v

\* ------------------------------------------------------------------- tiles
BlockEndNoClip(start, dim) == start + BLOCK_SIZE

\* std::cmp::min(i_block + BLOCK_SIZE, m)
BlockEnd(start, dim) ==
    IF start + BLOCK_SIZE < dim THEN start + BLOCK_SIZE ELSE dim

\* the first iteration of the five nested loops, <<>> if one range is empty
FirstPos(mm, kk, nn) ==
    IF 0 < mm /\ 0 < nn /\ 0 < kk THEN <<0, 0, 0, 0, 0>> ELSE <<>>

\* the iteration after pos = <<i_block, j_block, k_block, i, j>>
AdvancePos(pos, mm, kk, nn) ==
    LET ib == pos[1]
        jb == pos[2]
        kb == pos[3]
        i  == pos[4]
        j  == pos[5]
    IN  IF j + 1 < BlockEnd(jb, nn) THEN <<ib, jb, kb, i, j + 1>>
        ELSE IF i + 1 < BlockEnd(ib, mm) THEN <<ib, jb, kb, i + 1, jb>>
        ELSE IF kb + BLOCK_SIZE < kk THEN <<ib, jb, kb + BLOCK_SIZE, ib, jb>>
        ELSE IF jb + BLOCK_SIZE < nn
             THEN <<ib, jb + BLOCK_SIZE, 0, ib, jb + BLOCK_SIZE>>
        ELSE IF ib + BLOCK_SIZE < mm
             THEN <<ib + BLOCK_SIZE, 0, 0, ib + BLOCK_SIZE, 0>>
        ELSE <<>>

\* -------------------------------------------------------------- dispatcher
DispatchStrict(mm, kk, nn) ==
    IF mm < THRESHOLD /\ kk < THRESHOLD /\ nn < THRESHOLD
    THEN "direct" ELSE "blocked"

\* if m <= 512 && k <= 512 && n <= 512 { optimized } else { blocked }
Dispatch(mm, kk, nn) ==
    IF mm <= THRESHOLD /\ kk <= THRESHOLD /\ nn <= THRESHOLD
    THEN "direct" ELSE "blocked"

\* the arguments m, k, n as passed on to the kernel
Forward(mm, kk, nn) == [m |-> mm, k |-> kk, n |-> nn]

\* ------------------------------------------------------------- the caller
\* the caller's matrices: patterns of small positive values (a caller that
\* passes a negative dimension holds buffers of the size of its magnitude)
GenA(s, len) == [p \in 0..(len - 1) |-> ((s + 3 * p) % 7) + 1]

GenB(s, len) == [p \in 0..(len - 1) |-> ((s + 5 * p) % 11) + 1]

\* what the output buffer holds before the call: nothing a product can be
Garbage(len) == [p \in 0..(len - 1) |-> -(p + 1)]

Seeds == 0..MaxSeed
Small == (-1)..MaxSmall
Side == {-1, 0, 1}
TileEdge == {BLOCK_SIZE, BLOCK_SIZE + 1}
ThreshEdge == {THRESHOLD, THRESHOLD + 1}

\* <<m, k, n>>: all small, the 2x3 by 3x2 product, or one dimension at a tile
\* edge or at the dispatcher's threshold and the others in Side
DimTriples ==
    (Small \X Small \X Small)
    \cup {<<2, 3, 2>>}
    \cup (TileEdge \X Side \X Side)
    \cup (Side \X TileEdge \X Side)
    \cup (Side \X Side \X TileEdge)
    \cup (Side \X ThreshEdge \X Side)
    \cup {t \in (ThreshEdge \X Side \X Side) \cup (Side \X Side \X ThreshEdge) :
            t[1] <= 0 \/ t[2] <= 0 \/ t[3] <= 0}

\* the row tasks of the direct kernel are explored in every order: keep the
\* number of rows small where that kernel really runs
RowsFeasible(e, t) ==
    \/ t[1] < 0 \/ t[2] < 0 \/ t[3] < 0
    \/ e = "blocked"
    \/ t[1] <= MaxSmall
    \/ e = "auto" /\ t[1] > THRESHOLD

Configs(triples, sas, sbs) ==
    {[entry |-> e, m |-> t[1], k |-> t[2], n |-> t[3], sa |-> sa, sb |-> sb] :
        e \in Entries, t \in triples, sa \in sas, sb \in sbs}

Feasible(c) == RowsFeasible(c.entry, <<c.m, c.k, c.n>>)

\* a call the caller never makes
NoCall == [entry |-> "none", m |-> 0, k |-> 0, n |-> 0, sa |-> 0, sb |-> 0]

\* the state before the calls cs[1], cs[2] start
Setup(s, cs) ==
    /\ sched = s
    /\ entry = [id \in Calls |-> cs[id].entry]
    /\ m = [id \in Calls |-> cs[id].m]
    /\ k = [id \in Calls |-> cs[id].k]
    /\ n = [id \in Calls |-> cs[id].n]
    /\ a = [id \in Calls |-> GenA(cs[id].sa, Abs(cs[id].m) * Abs(cs[id].k))]
    /\ b = [id \in Calls |-> GenB(cs[id].sb, Abs(cs[id].k) * Abs(cs[id].n))]
    /\ cbuf = [id \in Calls |-> Garbage(Abs(cs[id].m) * Abs(cs[id].n))]
    /\ wcount = [id \in Calls |->
                    [p \in 0..(Abs(cs[id].m) * Abs(cs[id].n) - 1) |-> 0]]
    /\ pc = [id \in Calls |-> IF cs[id].entry = "none" THEN "idle" ELSE "call"]
    /\ kernel = [id \in Calls |-> ""]
    /\ arg = [id \in Calls |-> [m |-> 0, k |-> 0, n |-> 0]]
    /\ invoked = [id \in Calls |-> <<>>]
    /\ panicAt = [id \in Calls |-> 0]
    /\ cint = [id \in Calls |-> NoArray]
    /\ iwr = [id \in Calls |-> <<>>]
    /\ owner = [id \in Calls |-> <<>>]
    /\ rowpos = [id \in Calls |-> <<>>]
    /\ tpos = [id \in Calls |-> <<>>]
    /\ cpos = [id \in Calls |-> 0]
    /\ visits = [id \in Calls |-> <<>>]
    /\ nread = [id \in Calls |-> 0]

\* one call
Init ==
    \E c \in Configs(DimTriples, Seeds, Seeds) :
        Feasible(c) /\ Setup("single", <<c, NoCall>>)

\* ------------------------------------------------------------- the kernels
\* the kernel's own m, k, n after `let m = m as usize` (past the prologue
\* none of them is wrapped)
M(id) == AsUsize(arg[id].m).mag
K(id) == AsUsize(arg[id].k).mag
N(id) == AsUsize(arg[id].n).mag

\* a panic inside an extern "C" function ends the process
Aborted == \E id \in Calls : pc[id] = "panicked"

Live(id) ==
    /\ ~Aborted
    /\ (sched = "seq" /\ id = 2) => pc[1] = "done"

\* the caller calls rust_mm_optimized or rust_mm_blocked itself
Call(id) ==
    /\ Live(id)
    /\ pc[id] = "call"
    /\ entry[id] \in {"direct", "blocked"}
    /\ kernel' = [kernel EXCEPT ![id] = entry[id]]
    /\ arg' = [arg EXCEPT ![id] = [m |-> m[id], k |-> k[id], n |-> n[id]]]
    /\ invoked' = [invoked EXCEPT ![id] = Append(@, entry[id])]
    /\ pc' = [pc EXCEPT ![id] = "enter"]
    /\ UNCHANGED <<sched, entry, m, k, n, a, b, cbuf, wcount, panicAt, cint,
                   iwr, owner, rowpos, tpos, cpos, visits, nread>>

\* rust_mm_auto
Auto(id) ==
    /\ Live(id)
    /\ pc[id] = "call"
    /\ entry[id] = "auto"
    /\ kernel' = [kernel EXCEPT ![id] = Dispatch(m[id], k[id], n[id])]
    /\ arg' = [arg EXCEPT ![id] = Forward(m[id], k[id], n[id])]
    /\ invoked' = [invoked EXCEPT ![id] =
                      Append(@, Dispatch(m[id], k[id], n[id]))]
    /\ pc' = [pc EXCEPT ![id] = "enter"]
    /\ UNCHANGED <<sched, entry, m, k, n, a, b, cbuf, wcount, panicAt, cint,
                   iwr, owner, rowpos, tpos, cpos, visits, nread>>

\* the prologue of a kernel panics
EnterPanic(id) ==
    /\ Live(id)
    /\ pc[id] = "enter"
    /\ \E line \in PanicSites(arg[id].m, arg[id].k, arg[id].n) :
          panicAt' = [panicAt EXCEPT ![id] = PrologueLine(kernel[id], line)]
    /\ pc' = [pc EXCEPT ![id] = "panicked"]
    /\ UNCHANGED <<sched, entry, m, k, n, a, b, cbuf, wcount, kernel, arg,
                   invoked, cint, iwr, owner, rowpos, tpos, cpos, visits, nread>>

\* the prologue of a kernel: the casts, the slices, the views, Array2::zeros
EnterOk(id) ==
    /\ Live(id)
    /\ pc[id] = "enter"
    /\ PanicSites(arg[id].m, arg[id].k, arg[id].n) = {}
    /\ cint' = [cint EXCEPT ![Own(id)] = Zeros(M(id), N(id))]
    /\ iwr' = [iwr EXCEPT ![Own(id)] = [p \in 0..(M(id) * N(id) - 1) |-> <<>>]]
    /\ owner' = [owner EXCEPT ![id] = [i \in 0..(M(id) - 1) |-> 0]]
    /\ rowpos' = [rowpos EXCEPT ![id] = [i \in 0..(M(id) - 1) |-> 0]]
    /\ tpos' = [tpos EXCEPT ![id] =
                  IF kernel[id] = "blocked"
                  THEN FirstPos(M(id), K(id), N(id)) ELSE <<>>]
    /\ visits' = [visits EXCEPT ![id] =
                    [t \in 0..(M(id) * N(id) * K(id) - 1) |-> 0]]
    /\ pc' = [pc EXCEPT ![id] = IF kernel[id] = "direct" THEN "rows" ELSE "tiles"]
    /\ UNCHANGED <<sched, entry, m, k, n, a, b, cbuf, wcount, kernel, arg,
                   invoked, panicAt, cpos, nread>>

\* a panic at `line` of the kernel's body
PanicAt(id, line) ==
    /\ pc' = [pc EXCEPT ![id] = "panicked"]
    /\ panicAt' = [panicAt EXCEPT ![id] = line]
    /\ UNCHANGED <<cbuf, wcount, cint, iwr, owner, rowpos, tpos, cpos, visits,
                   nread>>

\* a rayon worker takes a row of c.axis_iter_mut(Axis(0)) nobody has taken
RowClaim(id, w, i) ==
    /\ Live(id)
    /\ pc[id] = "rows"
    /\ owner[id][i] = 0
    /\ \A r \in DOMAIN owner[id] : owner[id][r] = w => rowpos[id][r] = N(id)
    /\ owner' = [owner EXCEPT ![id][i] = w]
    /\ UNCHANGED <<sched, entry, m, k, n, a, b, cbuf, wcount, pc, kernel, arg,
                   invoked, panicAt, cint, iwr, rowpos, tpos, cpos, visits, nread>>

\* one iteration of `for j in 0..n` in the closure of row i
RowCell(id, w, i) ==
    /\ Live(id)
    /\ pc[id] = "rows"
    /\ owner[id][i] = w
    /\ rowpos[id][i] < N(id)
    /\ LET j == rowpos[id][i]
           last == RangeLast(K(id))
           x == Own(id)
           r == RowView(i)
       IN  IF ~InBounds(i, j, 0, last, M(id), K(id), N(id))
           THEN PanicAt(id, 43)
           ELSE IF ~(r < cint[x].nrows /\ j < cint[x].ncols)
           THEN PanicAt(id, 45)
           ELSE /\ cint' = [cint EXCEPT ![x].data[CIndex(r, j, cint[x].ncols)] =
                               SumTerms(a[id], b[id], i, j, 0, last,
                                        M(id), K(id), N(id))]
                /\ iwr' = [iwr EXCEPT ![x] =
                              Log(@, CIndex(r, j, cint[x].ncols), w)]
                /\ visits' = [visits EXCEPT ![id] =
                                Bump(@, i, j, 0, last, K(id), N(id))]
                /\ nread' = [nread EXCEPT ![id] = @ + (last + 1)]
                /\ rowpos' = [rowpos EXCEPT ![id][i] = j + 1]
                /\ UNCHANGED <<cbuf, wcount, pc, panicAt, owner, tpos, cpos>>
    /\ UNCHANGED <<sched, entry, m, k, n, a, b, kernel, arg, invoked>>

\* for_each returns: every row task has run to its end, the workers are
\* released
Join(id) ==
    /\ Live(id)
    /\ pc[id] = "rows"
    /\ \A i \in DOMAIN owner[id] : owner[id][i] # 0 /\ rowpos[id][i] = N(id)
    /\ pc' = [pc EXCEPT ![id] = "copy"]
    /\ owner' = [owner EXCEPT ![id] = <<>>]
    /\ rowpos' = [rowpos EXCEPT ![id] = <<>>]
    /\ iwr' = [iwr EXCEPT ![Own(id)] = <<>>]
    /\ UNCHANGED <<sched, entry, m, k, n, a, b, cbuf, wcount, kernel, arg,
                   invoked, panicAt, cint, tpos, cpos, visits, nread>>

\* one iteration of `for j in j_block..j_end` of the blocked kernel
BlockCell(id) ==
    /\ Live(id)
    /\ pc[id] = "tiles"
    /\ tpos[id] # <<>>
    /\ LET kb == tpos[id][3]
           i == tpos[id][4]
           j == tpos[id][5]
           last == RangeLast(BlockEnd(kb, K(id)))
           x == Own(id)
       IN  IF ~InBounds(i, j, kb, last, M(id), K(id), N(id))
           THEN PanicAt(id, 104)
           ELSE IF ~(i < cint[x].nrows /\ j < cint[x].ncols)
           THEN PanicAt(id, 106)
           ELSE /\ cint' = [cint EXCEPT ![x].data[CIndex(i, j, cint[x].ncols)] =
                               Accumulate(@, SumTerms(a[id], b[id], i, j, kb, last,
                                                      M(id), K(id), N(id)))]
                /\ iwr' = [iwr EXCEPT ![x] =
                              Log(@, CIndex(i, j, cint[x].ncols), 0)]
                /\ visits' = [visits EXCEPT ![id] =
                                Bump(@, i, j, kb, last, K(id), N(id))]
                /\ nread' = [nread EXCEPT ![id] = @ + (last + 1 - kb)]
                /\ tpos' = [tpos EXCEPT ![id] =
                              AdvancePos(@, M(id), K(id), N(id))]
                /\ UNCHANGED <<cbuf, wcount, pc, panicAt, owner, rowpos, cpos>>
    /\ UNCHANGED <<sched, entry, m, k, n, a, b, kernel, arg, invoked>>

\* the tile loops of the blocked kernel are over
TilesDone(id) ==
    /\ Live(id)
    /\ pc[id] = "tiles"
    /\ tpos[id] = <<>>
    /\ pc' = [pc EXCEPT ![id] = "copy"]
    /\ iwr' = [iwr EXCEPT ![Own(id)] = <<>>]
    /\ UNCHANGED <<sched, entry, m, k, n, a, b, cbuf, wcount, kernel, arg,
                   invoked, panicAt, cint, owner, rowpos, tpos, cpos,
                   visits, nread>>

\* one iteration of the copy-back: c_slice[i + j * m] = c[[i, j]]
CopyCell(id) ==
    /\ Live(id)
    /\ pc[id] = "copy"
    /\ cpos[id] < M(id) * N(id)
    /\ LET i == cpos[id] \div N(id)
           j == cpos[id] % N(id)
           x == Own(id)
           off == COffset(i, j, M(id), N(id))
           line == IF kernel[id] = "direct" THEN 53 ELSE 117
       IN  IF ~(i < cint[x].nrows /\ j < cint[x].ncols)
              \/ ~(off >= 0 /\ off < M(id) * N(id))
           THEN PanicAt(id, line)
           ELSE /\ cbuf' = [cbuf EXCEPT ![id][off] =
                               CopyStore(@, cint[x].data[CIndex(i, j, cint[x].ncols)])]
                /\ wcount' = [wcount EXCEPT ![id][off] = @ + 1]
                /\ cpos' = [cpos EXCEPT ![id] = @ + 1]
                /\ UNCHANGED <<pc, panicAt, cint, iwr, owner, rowpos, tpos,
                               visits, nread>>
    /\ UNCHANGED <<sched, entry, m, k, n, a, b, kernel, arg, invoked>>

\* the kernel returns and `c` is dropped
Return(id) ==
    /\ Live(id)
    /\ pc[id] = "copy"
    /\ cpos[id] = M(id) * N(id)
    /\ pc' = [pc EXCEPT ![id] = "done"]
    /\ cint' = [cint EXCEPT ![Own(id)] = NoArray]
    /\ UNCHANGED <<sched, entry, m, k, n, a, b, cbuf, wcount, kernel, arg,
                   invoked, panicAt, iwr, owner, rowpos, tpos, cpos, visits,
                   nread>>

Next ==
    \E id \in Calls :
        \/ Call(id)
        \/ Auto(id)
        \/ EnterPanic(id)
        \/ EnterOk(id)
        \/ \E w \in Workers : \E i \in DOMAIN owner[id] : RowClaim(id, w, i)
        \/ \E w \in Workers : \E i \in DOMAIN owner[id] : RowCell(id, w, i)
        \/ Join(id)
        \/ BlockCell(id)
        \/ TilesDone(id)
        \/ CopyCell(id)
        \/ Return(id)

Spec == Init /\ [][Next]_vars

\* ------------------------------------------------- two calls of the caller
\* the same matrices given to two entry points, one call after the other
InitBoth ==
    \E c \in Configs(DimTriples, Seeds, Seeds) : \E e2 \in {"direct", "blocked"} :
        /\ c.entry \in {"direct", "auto"}
        /\ e2 # c.entry
        /\ Feasible(c)
        /\ Feasible([c EXCEPT !.entry = e2])
        /\ Setup("seq", <<c, [c EXCEPT !.entry = e2]>>)

SpecBoth == InitBoth /\ [][Next]_vars

PairDims == (-1)..MaxPair
PairPos == 1..MaxPair
PairDepth == {MaxPair}

\* two calls on disjoint buffers, from two threads
InitPair ==
    \E c1 \in Configs(PairDims \X PairDims \X PairDims, {0}, {0}) :
        \E c2 \in Configs(PairPos \X PairDepth \X PairPos, {1}, {1}) :
            Setup("par", <<c1, c2>>)

SpecPair == InitPair /\ [][Next]_vars

\* ------------------------------------------------------------- properties
NonNeg(id) == m[id] >= 0 /\ k[id] >= 0 /\ n[id] >= 0

RECURSIVE RefSum(_, _, _, _, _)
\* sum over l in lo..hi of a[i + l*m] * b[l + j*k], on the caller's buffers
RefSum(id, i, j, lo, hi) ==
    IF hi < lo THEN 0
    ELSE IF hi = lo
    THEN a[id][i + lo * m[id]] * b[id][lo + j * k[id]]
    ELSE RefSum(id, i, j, lo, (lo + hi) \div 2)
         + RefSum(id, i, j, (lo + hi) \div 2 + 1, hi)

\* the caller's output holds the product, column-major
HoldsProduct(id) ==
    \A i \in 0..(m[id] - 1) : \A j \in 0..(n[id] - 1) :
        cbuf[id][i + j * m[id]] = RefSum(id, i, j, 0, k[id] - 1)

\* C1: the direct kernel, on non-negative dimensions, does not fail and
\* returns with c[i + j*m] = sum over l of a[i + l*m] * b[l + j*k] in every
\* cell of the caller's output
C1_DirectProduct ==
    \A id \in Calls :
        (entry[id] = "direct" /\ NonNeg(id)) =>
            /\ pc[id] # "panicked"
            /\ pc[id] = "done" => HoldsProduct(id)

C1_Witness ==
    /\ entry[1] = "direct" /\ pc[1] = "done"
    /\ m[1] = 2 /\ k[1] = 1 /\ n[1] = 2
    /\ cbuf[1][2] = a[1][0] * b[1][1]

\* C2: the blocked kernel, on non-negative dimensions (multiples of the tile
\* edge or not, smaller than it or not), does not fail (no index outside the
\* matrices is read), reads every product term exactly once and returns with
\* c[i + j*m] = sum over l of a[i + l*m] * b[l + j*k]
C2_BlockedProduct ==
    \A id \in Calls :
        (entry[id] = "blocked" /\ NonNeg(id)) =>
            /\ pc[id] # "panicked"
            /\ pc[id] = "done" =>
                  /\ HoldsProduct(id)
                  /\ \A t \in DOMAIN visits[id] : visits[id][t] = 1

C2_Witness ==
    /\ entry[1] = "blocked" /\ pc[1] = "done"
    /\ m[1] = BLOCK_SIZE + 1 /\ k[1] = 1 /\ n[1] = 1
    /\ cbuf[1][BLOCK_SIZE] = a[1][BLOCK_SIZE] * b[1][0]

SameInputs ==
    /\ m[1] = m[2] /\ k[1] = k[2] /\ n[1] = n[2]
    /\ a[1] = a[2] /\ b[1] = b[2]

\* C3: the direct and the blocked kernel, run on the same A, B, m, k, n (all
\* non-negative), both return, and leave equal output buffers
C3_KernelsAgree ==
    (SameInputs /\ NonNeg(1) /\ kernel[1] = "direct" /\ kernel[2] = "blocked") =>
        /\ pc[1] # "panicked" /\ pc[2] # "panicked"
        /\ (pc[1] = "done" /\ pc[2] = "done") => cbuf[1] = cbuf[2]

C3_Witness ==
    /\ SameInputs /\ kernel[1] = "direct" /\ kernel[2] = "blocked"
    /\ pc[1] = "done" /\ pc[2] = "done"
    /\ m[1] = 1 /\ k[1] = BLOCK_SIZE + 1 /\ n[1] = 1
    /\ cbuf[1] = cbuf[2] /\ cbuf[2][0] > 0

\* the kernel the dispatcher's policy names for call id
Policy(id) ==
    IF m[id] <= 512 /\ k[id] <= 512 /\ n[id] <= 512 THEN "direct" ELSE "blocked"

\* C4: rust_mm_auto invokes exactly one kernel, once: the direct kernel when
\* m, k and n are all <= 512 and the blocked kernel otherwise; it passes m, k, n
\* on unchanged and touches no buffer itself; its output is the output of the
\* chosen kernel called on the same arguments
C4_Dispatcher ==
    /\ \A id \in Calls :
          entry[id] = "auto" =>
              /\ pc[id] = "call" => invoked[id] = <<>>
              /\ pc[id] # "call" =>
                    /\ invoked[id] = <<Policy(id)>>
                    /\ kernel[id] = Policy(id)
                    /\ arg[id] = [m |-> m[id], k |-> k[id], n |-> n[id]]
              /\ pc[id] \in {"call", "enter"} =>
                    /\ nread[id] = 0
                    /\ cpos[id] = 0
                    /\ \A off \in DOMAIN cbuf[id] :
                          wcount[id][off] = 0 /\ cbuf[id][off] = -(off + 1)
    /\ (SameInputs /\ entry[1] = "auto" /\ entry[2] = Policy(1)
        /\ pc[1] = "done" /\ pc[2] = "done") => cbuf[1] = cbuf[2]

C4_Witness ==
    /\ SameInputs /\ entry[1] = "auto" /\ entry[2] = "direct"
    /\ m[1] = 1 /\ k[1] = 512 /\ n[1] = 1
    /\ invoked[1] = <<"direct">>
    /\ pc[1] = "done" /\ pc[2] = "done"
    /\ cbuf[1] = cbuf[2] /\ cbuf[1][0] > 0

\* C5: the caller's output buffer is never read and each of its cells is
\* stored into exactly once, by the copy-back, which starts when the whole
\* product is in the kernel's own buffer: a cell holds what the caller left in
\* it until it holds its final value, never a partial sum
C5_OutputWrittenOnce ==
    \A id \in Calls :
        (entry[id] # "none" /\ NonNeg(id)) =>
            /\ \A off \in DOMAIN wcount[id] :
                  /\ wcount[id][off] <= 1
                  /\ wcount[id][off] = 0 => cbuf[id][off] = -(off + 1)
                  /\ wcount[id][off] = 1 =>
                        /\ pc[id] \in {"copy", "done"}
                        /\ cbuf[id][off] =
                              RefSum(id, off % m[id], off \div m[id], 0, k[id] - 1)
            /\ pc[id] = "copy" =>
                  \A i \in 0..(m[id] - 1) : \A j \in 0..(n[id] - 1) :
                      cint[id].data[i * n[id] + j] = RefSum(id, i, j, 0, k[id] - 1)
            /\ pc[id] = "done" =>
                  \A off \in DOMAIN wcount[id] : wcount[id][off] = 1

C5_Witness ==
    /\ kernel[1] = "blocked" /\ pc[1] = "copy"
    /\ m[1] = 2 /\ k[1] = 2 /\ n[1] = 2
    /\ cpos[1] = 2
    /\ wcount[1][0] = 1 /\ wcount[1][2] = 1
    /\ wcount[1][1] = 0 /\ cbuf[1][1] = -2

\* C6: with m = 0 or n = 0 every entry point runs to its return without a
\* fault and stores nothing into C; with k = 0 and m, n > 0 it runs to its
\* return without a fault, reads no element of A or B and leaves 0 in every
\* cell of C
C6_ZeroDims ==
    \A id \in Calls :
        (entry[id] # "none" /\ NonNeg(id)) =>
            /\ (m[id] = 0 \/ n[id] = 0) =>
                  /\ pc[id] # "panicked"
                  /\ cpos[id] = 0
                  /\ pc[id] # "done" => ENABLED Next
            /\ (k[id] = 0 /\ m[id] > 0 /\ n[id] > 0) =>
                  /\ pc[id] # "panicked"
                  /\ nread[id] = 0
                  /\ pc[id] # "done" => ENABLED Next
                  /\ pc[id] = "done" =>
                        \A off \in 0..(m[id] * n[id] - 1) :
                            cbuf[id][off] = 0 /\ wcount[id][off] = 1

C6_Witness ==
    /\ entry[1] = "auto" /\ pc[1] = "done"
    /\ m[1] = 2 /\ k[1] = 0 /\ n[1] = 2
    /\ cbuf[1] = [off \in 0..3 |-> 0]

\* C7: of two calls running concurrently on disjoint buffers, each one that
\* returns leaves the product of its own inputs in its own output, every cell
\* stored once, as when it runs alone, and keeps no buffer; no call on
\* non-negative dimensions fails
C7_NoCrossTalk ==
    /\ (NonNeg(1) /\ NonNeg(2)) => (pc[1] # "panicked" /\ pc[2] # "panicked")
    /\ \A id \in Calls :
          (NonNeg(id) /\ pc[id] = "done") =>
              /\ HoldsProduct(id)
              /\ \A off \in DOMAIN wcount[id] : wcount[id][off] = 1
              /\ cint[id] = NoArray

C7_Witness ==
    /\ sched = "par"
    /\ kernel[1] = "direct" /\ kernel[2] = "blocked"
    /\ m[1] = 1 /\ k[1] = 1 /\ n[1] = 1
    /\ pc[1] = "done" /\ pc[2] = "done"
    /\ cbuf[1][0] = a[1][0] * b[1][0]
    /\ cbuf[2][0] = RefSum(2, 0, 0, 0, k[2] - 1)

\* C8: in the direct kernel every row is worked by one worker, as a whole; a
\* row task stores only into the cells of its own row, each cell once, and
\* what it stores is that cell's full sum; so whichever worker takes which
\* row and in whatever order the tasks advance, the joined result is the
\* product, the result of doing the rows in the order 0..m-1
C8_RowParallel ==
    \A id \in Calls :
        (kernel[id] = "direct" /\ NonNeg(id)) =>
            /\ pc[id] = "rows" =>
                  /\ \A i \in DOMAIN owner[id] :
                        /\ rowpos[id][i] > 0 => owner[id][i] \in Workers
                        /\ \A r \in DOMAIN owner[id] :
                              (r # i /\ owner[id][r] = owner[id][i]
                               /\ owner[id][i] # 0)
                                  => (rowpos[id][i] = n[id] \/ rowpos[id][r] = n[id])
                  /\ \A p \in DOMAIN iwr[id] :
                        LET i == p \div n[id]
                            j == p % n[id]
                        IN  IF j < rowpos[id][i]
                            THEN /\ iwr[id][p] = <<owner[id][i]>>
                                 /\ cint[id].data[p] = RefSum(id, i, j, 0, k[id] - 1)
                            ELSE /\ iwr[id][p] = <<>>
                                 /\ cint[id].data[p] = 0
            /\ pc[id] = "copy" =>
                  \A i \in 0..(m[id] - 1) : \A j \in 0..(n[id] - 1) :
                      cint[id].data[i * n[id] + j] = RefSum(id, i, j, 0, k[id] - 1)

C8_Witness ==
    /\ kernel[1] = "direct" /\ pc[1] = "rows"
    /\ m[1] = 2 /\ k[1] = 2 /\ n[1] = 2
    /\ owner[1][0] = 2 /\ owner[1][1] = 1
    /\ rowpos[1][1] = 2 /\ rowpos[1][0] = 1
    /\ iwr[1][0] = <<2>> /\ iwr[1][1] = <<>> /\ iwr[1][3] = <<1>>

\* the depth tiles of cell (i, j) already added when the blocked kernel of
\* call id stands at tpos[id], by the nesting row tile, column tile, depth
\* tile, row, column
TilesAdded(id, i, j) ==
    LET all == (k[id] + BLOCK_SIZE - 1) \div BLOCK_SIZE
        ib == (i \div BLOCK_SIZE) * BLOCK_SIZE
        jb == (j \div BLOCK_SIZE) * BLOCK_SIZE
        t == tpos[id]
    IN  IF t = <<>> THEN all
        ELSE IF ib < t[1] \/ (ib = t[1] /\ jb < t[2]) THEN all
        ELSE IF ib > t[1] \/ jb > t[2] THEN 0
        ELSE (t[3] \div BLOCK_SIZE)
             + (IF i < t[4] \/ (i = t[4] /\ j < t[5]) THEN 1 ELSE 0)

\* the number of l below the depth tiles added to cell (i, j)
DepthAdded(id, i, j) ==
    IF TilesAdded(id, i, j) * BLOCK_SIZE < k[id]
    THEN TilesAdded(id, i, j) * BLOCK_SIZE ELSE k[id]

C10_NegativeNoOp ==
    \A id \in Calls :
        (entry[id] # "none" /\ ~NonNeg(id)) =>
            /\ pc[id] # "panicked"
            /\ nread[id] = 0
            /\ cpos[id] = 0

\* C10, amended: a call with a negative dimension does not return; the value
\* is taken as a length above isize::MAX and the kernel's prologue panics (at
\* a slice length, lines 23 to 25, or at the unwrap of a shape, line 29 or 30;
\* lines 74 to 76, 80 or 81 in the blocked kernel) before it reads A or B or
\* stores into C; rust_mm_auto passes the negative dimension on to the kernel
\* its test names
C10_NegativePanics ==
    \A id \in Calls :
        (entry[id] # "none" /\ ~NonNeg(id)) =>
            /\ pc[id] \in {"call", "enter", "panicked"}
            /\ pc[id] = "enter" => ENABLED EnterPanic(id)
            /\ pc[id] # "call" =>
                  kernel[id] = IF entry[id] = "auto" THEN Policy(id) ELSE entry[id]
            /\ pc[id] = "panicked" =>
                  panicAt[id] \in (IF kernel[id] = "direct"
                                   THEN {23, 24, 25, 29, 30}
                                   ELSE {74, 75, 76, 80, 81})
            /\ nread[id] = 0
            /\ cpos[id] = 0
            /\ \A off \in DOMAIN cbuf[id] :
                  wcount[id][off] = 0 /\ cbuf[id][off] = -(off + 1)

C10_Witness ==
    /\ entry[1] = "auto" /\ kernel[1] = "direct"
    /\ m[1] = -1 /\ k[1] = 1 /\ n[1] = 1
    /\ pc[1] = "panicked" /\ panicAt[1] = 29
    /\ cbuf[1] = <<>> \/ cbuf[1][0] = -1

====
